---- MODULE Spec2Model ----
(***************************************************************************)
(* A model of cvlib's CorrelationVector (src/cvlib/src/correlationvector.rs *)
(* and src/cvlib/src/spinparams.rs).                                        *)
(*                                                                         *)
(* Strings are sequences of one-character strings.  Unsigned integers of   *)
(* the program keep their width: a u32 is a sequence of 4 bytes and a u64  *)
(* a sequence of 8 bytes, most significant byte first, so that values up   *)
(* to 2^32-1 and 2^64-1 are represented exactly.                           *)
(***************************************************************************)
EXTENDS Integers, Sequences, FiniteSets

VARIABLES
    cv,       \* the CorrelationVector: base, vector, immutable, serialized_length
    prev,     \* the vector as it was when the last call began
    op,       \* the last call: "none", "new_from_uuid", "parse", "extend", "increment", "spin"
    result,   \* how the last call ended: "Ok", a parse error, or "panic"
    ctor,     \* the constructor this run uses: "new_from_uuid" or "parse"
    uuid,     \* the argument of new_from_uuid (16 bytes), <<>> in a parse run
    input,    \* the argument of parse, <<>> in a new_from_uuid run
    calls,    \* number of calls counted against MaxCalls: those made one at a
              \* time on the vector while it was mutable
    spins,    \* number of those calls that were spin calls
    spun      \* what the last call, if a spin, read: params, ticks, random

vars == <<cv, prev, op, result, ctor, uuid, input, calls, spins, spun>>

----------------------------------------------------------------------------
(* Bounds of the exploration *)

\* extend, increment and spin are called one at a time at most this many times
\* on a mutable vector; the loop of extend calls is not counted
MaxCalls == 3

\* in the runs that use only extend and increment on a fresh vector:
\* increment is called while the last counter is below this value
MaxCounter == 30

\* and extend is called on vectors of at most this many counters
MaxVector == 1

----------------------------------------------------------------------------
(* Strings *)

TERMINATION_SYMBOL == "!"

Digits == <<"0", "1", "2", "3", "4", "5", "6", "7", "8", "9">>

\* str::ends_with for a one-character pattern
EndsWith(s, c) == Len(s) > 0 /\ s[Len(s)] = c

\* str::trim_end_matches for a one-character pattern: every trailing c goes
TrimEndMatches(s, c) ==
    LET kept == {i \in 1..Len(s) : s[i] # c}
        last == IF kept = {} THEN 0 ELSE CHOOSE i \in kept : \A j \in kept : j <= i
    IN  SubSeq(s, 1, last)

\* str::split(c): the pieces between the separators, one more than there are
\* separators; "" gives one empty piece
Split(s, c) ==
    LET seps   == {i \in 1..Len(s) : s[i] = c}
        \* the position of the k-th separator; 0 and Len(s)+1 bracket them
        sep(k) == IF k = 0 THEN 0
                  ELSE IF k > Cardinality(seps) THEN Len(s) + 1
                  ELSE CHOOSE i \in seps : Cardinality({j \in seps : j < i}) = k - 1
    IN  [k \in 1..(Cardinality(seps) + 1) |-> SubSeq(s, sep(k - 1) + 1, sep(k) - 1)]

\* [String]::join(sep); the two halves are joined separately to keep the
\* evaluation shallow
RECURSIVE Join(_, _)
Join(parts, sep) ==
    IF Len(parts) = 0 THEN <<>>
    ELSE IF Len(parts) = 1 THEN parts[1]
    ELSE LET half == Len(parts) \div 2
         IN  Join(SubSeq(parts, 1, half), sep) \o <<sep>>
             \o Join(SubSeq(parts, half + 1, Len(parts)), sep)

\* n copies of the character c
Rep(c, n) == [i \in 1..n |-> c]

----------------------------------------------------------------------------
(* Fixed-width unsigned integers as big-endian byte sequences *)

\* the n-byte representation of a small natural number k
RECURSIVE FromNat(_, _)
FromNat(k, n) ==
    IF n = 0 THEN <<>> ELSE Append(FromNat(k \div 256, n - 1), k % 256)

IsZero(b) == \A i \in 1..Len(b) : b[i] = 0

\* a > b for two integers of the same width
RECURSIVE GtFrom(_, _, _)
GtFrom(a, b, i) ==
    IF i > Len(a) THEN FALSE
    ELSE IF a[i] # b[i] THEN a[i] > b[i]
    ELSE GtFrom(a, b, i + 1)

Gt(a, b) == GtFrom(a, b, 1)

\* b / 10, by long division from the most significant byte
RECURSIVE Div10From(_, _, _)
Div10From(b, i, r) ==
    IF i > Len(b) THEN <<>>
    ELSE LET cur == r * 256 + b[i]
         IN  <<cur \div 10>> \o Div10From(b, i + 1, cur % 10)

Div10(b) == Div10From(b, 1, 0)

\* b % 10
RECURSIVE Mod10From(_, _, _)
Mod10From(b, i, r) ==
    IF i > Len(b) THEN r ELSE Mod10From(b, i + 1, (r * 256 + b[i]) % 10)

Mod10(b) == Mod10From(b, 1, 0)

\* b * m + a, as the pair of the wrapped value and the carry out of the top byte
RECURSIVE MulAddFrom(_, _, _, _)
MulAddFrom(b, m, i, carry) ==
    IF i = 0 THEN [value |-> <<>>, carry |-> carry]
    ELSE LET cur  == b[i] * m + carry
             rest == MulAddFrom(b, m, i - 1, cur \div 256)
         IN  [value |-> Append(rest.value, cur % 256), carry |-> rest.carry]

MulAdd(b, m, a) == MulAddFrom(b, m, Len(b), a)

\* b + 1, wrapped to the width, and whether it overflowed
AddOne(b) == MulAdd(b, 1, 1)

\* u32::to_string: decimal digits, no sign, no leading zeros, "0" for zero
RECURSIVE ToDigits(_)
ToDigits(b) ==
    IF IsZero(b) THEN <<>>
    ELSE Append(ToDigits(Div10(b)), Digits[Mod10(b) + 1])

to_string(b) == IF IsZero(b) THEN <<"0">> ELSE ToDigits(b)

DigitValue(c) == CHOOSE d \in 0..9 : Digits[d + 1] = c

IsDigit(c) == \E d \in 0..9 : Digits[d + 1] = c

\* str::parse::<u32>: an optional leading '+', then one or more decimal digits
\* (leading zeros allowed), accumulated with checked arithmetic
RECURSIVE AccumulateU32(_, _, _)
AccumulateU32(s, i, acc) ==
    IF i > Len(s) THEN [ok |-> TRUE, value |-> acc]
    ELSE IF ~IsDigit(s[i]) THEN [ok |-> FALSE, value |-> acc]
    ELSE LET next == MulAdd(acc, 10, DigitValue(s[i]))
         IN  IF next.carry # 0 THEN [ok |-> FALSE, value |-> acc]
             ELSE AccumulateU32(s, i + 1, next.value)

ParseU32(s) ==
    LET digits == IF Len(s) > 0 /\ s[1] = "+" THEN Tail(s) ELSE s
    IN  IF Len(digits) = 0 THEN [ok |-> FALSE, value |-> FromNat(0, 4)]
        ELSE AccumulateU32(digits, 1, FromNat(0, 4))

----------------------------------------------------------------------------
(* Bit operations on the byte representation *)

\* a & b for two bytes
RECURSIVE BitAnd(_, _)
BitAnd(a, b) ==
    IF a = 0 \/ b = 0 THEN 0
    ELSE (a % 2) * (b % 2) + 2 * BitAnd(a \div 2, b \div 2)

\* a & b for two integers of the same width
And(a, b) == [i \in 1..Len(a) |-> BitAnd(a[i], b[i])]

\* (a << 8) | byte, the bits shifted out of the top are lost
Shl8Or(a, byte) == Append(Tail(a), byte)

\* a >> bits, for a shift by whole bytes (every shift of the program is one)
Shr(a, bits) ==
    LET n == bits \div 8
    IN  [i \in 1..Len(a) |-> IF i <= n THEN 0 ELSE a[i - n]]

\* 2^k for a small k
RECURSIVE Pow2(_)
Pow2(k) == IF k = 0 THEN 1 ELSE 2 * Pow2(k - 1)

\* (1 << bits) - 1 as a u64, for bits < 64
LowBitsMask(bits) ==
    [i \in 1..8 |->
        LET below == 8 * (8 - i)     \* number of bits below byte i
            keep  == IF bits <= below THEN 0
                     ELSE IF bits - below >= 8 THEN 8 ELSE bits - below
        IN  Pow2(keep) - 1]

----------------------------------------------------------------------------
(* base64::encode, standard alphabet with padding *)

Base64Alphabet ==
    <<"A", "B", "C", "D", "E", "F", "G", "H", "I", "J", "K", "L", "M",
      "N", "O", "P", "Q", "R", "S", "T", "U", "V", "W", "X", "Y", "Z",
      "a", "b", "c", "d", "e", "f", "g", "h", "i", "j", "k", "l", "m",
      "n", "o", "p", "q", "r", "s", "t", "u", "v", "w", "x", "y", "z",
      "0", "1", "2", "3", "4", "5", "6", "7", "8", "9", "+", "/">>

Sextet(n) == Base64Alphabet[n + 1]

RECURSIVE Base64Encode(_)
Base64Encode(b) ==
    IF Len(b) = 0 THEN <<>>
    ELSE IF Len(b) = 1 THEN
        <<Sextet(b[1] \div 4), Sextet((b[1] % 4) * 16), "=", "=">>
    ELSE IF Len(b) = 2 THEN
        <<Sextet(b[1] \div 4), Sextet((b[1] % 4) * 16 + b[2] \div 16),
          Sextet((b[2] % 16) * 4), "=">>
    ELSE
        <<Sextet(b[1] \div 4), Sextet((b[1] % 4) * 16 + b[2] \div 16),
          Sextet((b[2] % 16) * 4 + b[3] \div 64), Sextet(b[3] % 64)>>
        \o Base64Encode(SubSeq(b, 4, Len(b)))

----------------------------------------------------------------------------
(* spinparams.rs *)

SpinCounterInterval == {"Coarse", "Fine"}

SpinCounterPeriodicity == {"None", "Short", "Medium", "Long"}

SpinEntropy == {"None", "One", "Two", "Three", "Four"}

ticks_to_drop(interval) == IF interval = "Coarse" THEN 24 ELSE 16

entropy_bytes(entropy) ==
    CASE entropy = "None"  -> 0
      [] entropy = "One"   -> 1
      [] entropy = "Two"   -> 2
      [] entropy = "Three" -> 3
      [] entropy = "Four"  -> 4

tick_periodicity_bits(params) ==
    LET counter_bits ==
            CASE params.spin_counter_periodicity = "None"   -> 0
              [] params.spin_counter_periodicity = "Short"  -> 16
              [] params.spin_counter_periodicity = "Medium" -> 24
              [] params.spin_counter_periodicity = "Long"   -> 32
    IN  counter_bits + entropy_bytes(params.spin_entropy) * 8

\* rand::random::<u8>() called once per byte: the bytes the random source
\* yields, in order, are the first bytes of the stream `random`
generate_entropy(entropy, random) == SubSeq(random, 1, entropy_bytes(entropy))

----------------------------------------------------------------------------
(* correlationvector.rs *)

\* the value of the state variable before a constructor has run
NoVector ==
    [base |-> <<>>, vector |-> <<>>, immutable |-> FALSE, serialized_length |-> 0]

\* the pop loop of new_from_uuid: trailing '=' characters are dropped
RECURSIVE PopPadding(_)
PopPadding(s) ==
    IF Len(s) = 0 THEN s
    ELSE IF s[Len(s)] # "=" THEN s
    ELSE PopPadding(SubSeq(s, 1, Len(s) - 1))

new_from_uuid(u) ==
    LET base_string == PopPadding(Base64Encode(u))
    IN  [base              |-> base_string,
         vector            |-> <<FromNat(0, 4)>>,
         immutable         |-> FALSE,
         serialized_length |-> Len(base_string) + 2]

\* the result of parse: ok, the error's name ("Ok" when there is none) and
\* the vector built
ParseErr(e) == [ok |-> FALSE, err |-> e, cv |-> NoVector]

\* a plausible slip of the length check: every 128-byte input is rejected
too_long_at_128(s) == Len(s) >= 128

\* the length check of parse (line 53)
too_long(s) ==
    Len(s) > 128 \/ (Len(s) = 128 /\ ~EndsWith(s, TERMINATION_SYMBOL))

parse(s) ==
    IF too_long(s)
    THEN ParseErr("StringTooLongError")
    ELSE
        LET \* the shadowing `input` of line 57: the argument, trimmed
            trimmed == IF EndsWith(s, TERMINATION_SYMBOL)
                       THEN TrimEndMatches(s, TERMINATION_SYMBOL)
                       ELSE s
            parts   == Split(trimmed, ".")
            nums    == [i \in 1..(Len(parts) - 1) |-> ParseU32(parts[i + 1])]
        IN  IF Len(parts) >= 2 THEN
                IF \E i \in 1..Len(nums) : ~nums[i].ok
                THEN ParseErr("ParseError")
                ELSE [ok  |-> TRUE,
                      err |-> "Ok",
                      cv  |-> [base              |-> parts[1],
                               vector            |-> [i \in 1..Len(nums) |-> nums[i].value],
                               immutable         |-> EndsWith(trimmed, TERMINATION_SYMBOL),
                               serialized_length |-> Len(trimmed)]]
            ELSE IF Len(parts) = 1 THEN ParseErr("MissingVector")
            ELSE ParseErr("Empty")

\* a plausible slip of extend: the immutable guard is missing
extend_unguarded(v) ==
    LET proposed_len == v.serialized_length + 2
    IN  IF proposed_len > 127 THEN [v EXCEPT !.immutable = TRUE]
        ELSE [v EXCEPT !.vector = Append(@, FromNat(0, 4)),
                       !.serialized_length = proposed_len]

\* a plausible slip of extend: a proposed length of exactly 127 is refused
extend_below_budget(v) ==
    IF v.immutable THEN v
    ELSE LET proposed_len == v.serialized_length + 2
         IN  IF proposed_len >= 127 THEN [v EXCEPT !.immutable = TRUE]
             ELSE [v EXCEPT !.vector = Append(@, FromNat(0, 4)),
                            !.serialized_length = proposed_len]

extend(v) ==
    IF v.immutable THEN v
    ELSE LET proposed_len == v.serialized_length + 2
         IN  IF proposed_len > 127 THEN [v EXCEPT !.immutable = TRUE]
             ELSE [v EXCEPT !.vector = Append(@, FromNat(0, 4)),
                            !.serialized_length = proposed_len]

\* n calls of extend in a row; the two halves are applied separately, the
\* first evaluated before the second starts, to keep the evaluation shallow
RECURSIVE extend_times(_, _)
extend_more(v, n) == IF v.immutable \in BOOLEAN THEN extend_times(v, n) ELSE v

extend_times(v, n) ==
    IF n = 0 THEN v
    ELSE IF n = 1 THEN extend(v)
    ELSE extend_more(extend_times(v, n \div 2), n - n \div 2)

\* a plausible slip of increment: the first counter is the one incremented
increment_first(v, overflow_checks) ==
    IF v.immutable THEN [cv |-> v, panic |-> FALSE]
    ELSE
        LET last_index == 1
            prv  == v.vector[last_index]
            v1   == IF Mod10(prv) = 9
                    THEN IF v.serialized_length < 127
                         THEN [v EXCEPT !.serialized_length = @ + 1]
                         ELSE [v EXCEPT !.immutable = TRUE]
                    ELSE v
            sum  == AddOne(prv)
        IN  IF v1.immutable THEN [cv |-> v1, panic |-> FALSE]
            ELSE IF sum.carry # 0 /\ overflow_checks THEN [cv |-> v1, panic |-> TRUE]
            ELSE [cv |-> [v1 EXCEPT !.vector[last_index] = sum.value], panic |-> FALSE]

\* a plausible slip of increment: the digit gained at a carry is not counted
increment_uncounted(v, overflow_checks) ==
    IF v.immutable THEN [cv |-> v, panic |-> FALSE]
    ELSE
        LET last_index == Len(v.vector) - 1 + 1
            prv  == v.vector[last_index]
            v1   == IF Mod10(prv) = 9
                    THEN IF v.serialized_length < 127
                         THEN v
                         ELSE [v EXCEPT !.immutable = TRUE]
                    ELSE v
            sum  == AddOne(prv)
        IN  IF v1.immutable THEN [cv |-> v1, panic |-> FALSE]
            ELSE IF sum.carry # 0 /\ overflow_checks THEN [cv |-> v1, panic |-> TRUE]
            ELSE [cv |-> [v1 EXCEPT !.vector[last_index] = sum.value], panic |-> FALSE]

\* increment under a build with or without overflow checks: the vector after
\* the call and whether the call panicked (prev + 1 on 2^32-1 panics with
\* overflow checks and wraps to 0 without)
increment(v, overflow_checks) ==
    IF v.immutable THEN [cv |-> v, panic |-> FALSE]
    ELSE
        LET last_index == Len(v.vector) - 1 + 1    \* sequences start at 1
            prv  == v.vector[last_index]
            v1   == IF Mod10(prv) = 9
                    THEN IF v.serialized_length < 127
                         THEN [v EXCEPT !.serialized_length = @ + 1]
                         ELSE [v EXCEPT !.immutable = TRUE]
                    ELSE v
            sum  == AddOne(prv)
        IN  IF v1.immutable THEN [cv |-> v1, panic |-> FALSE]
            ELSE IF sum.carry # 0 /\ overflow_checks THEN [cv |-> v1, panic |-> TRUE]
            ELSE [cv |-> [v1 EXCEPT !.vector[last_index] = sum.value], panic |-> FALSE]

RECURSIVE serialized_length_loop(_, _)
serialized_length_loop(length, n) ==
    IF Gt(n, FromNat(10, 4)) THEN serialized_length_loop(length + 1, Div10(n))
    ELSE length

serialized_length_of(n) == serialized_length_loop(1, n)

\* the u64 `value` of spin before the mask (lines 129-134): the ticks with
\* their low bits dropped, then the entropy bytes shifted in from the right
spin_composite(params, ticks, random) ==
    LET entropy == generate_entropy(params.spin_entropy, random)
        shifted == Shr(ticks, ticks_to_drop(params.spin_counter_interval))
        RECURSIVE Mix(_, _)
        Mix(value, i) ==
            IF i > Len(entropy) THEN value ELSE Mix(Shl8Or(value, entropy[i]), i + 1)
    IN  Mix(shifted, 1)

\* the u64 `value` of spin after the mask (lines 136-143)
spin_value(params, ticks, random) ==
    LET tick_bitmask_bits == tick_periodicity_bits(params)
        mask == IF tick_bitmask_bits = 64 THEN FromNat(0, 8)
                ELSE LowBitsMask(tick_bitmask_bits)
    IN  And(spin_composite(params, ticks, random), mask)

\* a plausible slip of spin: the high 32 bits are appended before the low
spin_high_first(v, params, ticks, random) ==
    IF v.immutable THEN v
    ELSE
        LET value             == spin_value(params, ticks, random)
            tick_bitmask_bits == tick_periodicity_bits(params)
            first_32_bits     == IF tick_bitmask_bits > 32
                                 THEN SubSeq(Shr(value, 32), 5, 8)
                                 ELSE SubSeq(value, 5, 8)
            len1              == serialized_length_of(first_32_bits) + 1
            v1 == [v EXCEPT !.serialized_length = @ + len1,
                            !.vector = Append(@, first_32_bits)]
            end_32_bits       == SubSeq(value, 5, 8)
            len2              == serialized_length_of(end_32_bits) + 1
            v2 == [v1 EXCEPT !.vector = Append(@, end_32_bits),
                             !.serialized_length = @ + len2]
        IN  IF v.serialized_length + len1 > 127 THEN [v EXCEPT !.immutable = TRUE]
            ELSE IF tick_bitmask_bits > 32 /\ v1.serialized_length + len2 > 127
                 THEN [v1 EXCEPT !.immutable = TRUE]
            ELSE LET v3 == IF tick_bitmask_bits > 32 THEN v2 ELSE v1
                 IN  IF v3.serialized_length + 2 > 127
                     THEN [v3 EXCEPT !.immutable = TRUE]
                     ELSE [v3 EXCEPT !.vector = Append(@, FromNat(0, 4)),
                                     !.serialized_length = @ + 2]

spin(v, params, ticks, random) ==
    IF v.immutable THEN v
    ELSE
        LET value             == spin_value(params, ticks, random)
            tick_bitmask_bits == tick_periodicity_bits(params)
            first_32_bits     == SubSeq(value, 5, 8)
            len1              == serialized_length_of(first_32_bits) + 1
            v1 == [v EXCEPT !.serialized_length = @ + len1,
                            !.vector = Append(@, first_32_bits)]
            end_32_bits       == SubSeq(Shr(value, 32), 5, 8)
            len2              == serialized_length_of(end_32_bits) + 1
            v2 == [v1 EXCEPT !.vector = Append(@, end_32_bits),
                             !.serialized_length = @ + len2]
        IN  IF v.serialized_length + len1 > 127 THEN [v EXCEPT !.immutable = TRUE]
            ELSE IF tick_bitmask_bits > 32 /\ v1.serialized_length + len2 > 127
                 THEN [v1 EXCEPT !.immutable = TRUE]
            ELSE LET v3 == IF tick_bitmask_bits > 32 THEN v2 ELSE v1
                 IN  IF v3.serialized_length + 2 > 127
                     THEN [v3 EXCEPT !.immutable = TRUE]
                     ELSE [v3 EXCEPT !.vector = Append(@, FromNat(0, 4)),
                                     !.serialized_length = @ + 2]

\* a plausible slip of Display: the termination marker is never written (the
\* Display of lib.rs)
fmt_without_marker(v) ==
    LET vector_string ==
            Join([i \in 1..Len(v.vector) |-> to_string(v.vector[i])], ".")
    IN  v.base \o <<".">> \o vector_string

\* impl Display: "{}.{}{}"
fmt(v) ==
    LET vector_string ==
            Join([i \in 1..Len(v.vector) |-> to_string(v.vector[i])], ".")
    IN  v.base \o <<".">> \o vector_string
        \o (IF v.immutable THEN <<"!">> ELSE <<>>)

----------------------------------------------------------------------------
(* The inputs the calls are given *)

\* new_from_uuid: the UUID whose base is the one of the unit tests' vectors,
\* and the all-ones UUID
UuidOfTests ==
    <<63, 219, 245, 150, 210, 182, 75, 186, 147, 75, 190, 243, 210, 85, 173, 42>>

UuidMax == [i \in 1..16 |-> 255]

Uuids == {UuidOfTests, UuidMax}

\* parse: short strings
InEmpty       == <<>>
InOnlyMarker  == <<"!">>
InOnlyBase    == <<"o", "n", "l", "y", "b", "a", "s", "e">>
InBadCounter  == <<"b", "a", "s", "e", ".", "a", "b", "c">>
InTerminated  == <<"b", "a", "s", "e", ".", "0", "!">>
InEmptyCounter == <<"b", "a", "s", "e", ".", ".", "0">>
InTooBig      == <<"b", "a", "s", "e", ".", "4", "2", "9", "4", "9", "6", "7", "2", "9", "6">>

\* parse: strings near and past the 128-byte ceiling; the base is padded
Pad(n) == Rep("P", n)

\* the 127-byte string of tests::increment_stops_when_oversize
InOfTests ==
    <<"P", "9", "v", "1", "l", "t", "K", "2", "S", "7", "q", "T", "S",
      "7", "7", "z", "0", "l", "W", "t", "K", "g", ".", "0", ".", "3",
      "8", "6", "3", "9", "4", "2", "1", "9", ".", "0", ".", "3", "8",
      "6", "3", "8", "3", "9", "8", "9", ".", "0", ".", "3", "8", "6",
      "3", "4", "4", "3", "8", "9", ".", "0", ".", "3", "8", "6", "3",
      "7", "2", "5", "9", "4", ".", "0", ".", "3", "8", "6", "3", "9",
      "1", "2", "3", "3", ".", "0", ".", "3", "8", "6", "3", "6", "0",
      "3", "2", "0", ".", "0", ".", "3", "8", "6", "3", "8", "6", "3",
      "4", "2", ".", "0", ".", "3", "8", "6", "3", "4", "1", "1", "0",
      "5", ".", "1", "2", "3", "4", "4", "4", "5", "9">>

InMaxCounter   == Pad(116) \o <<".", "4", "2", "9", "4", "9", "6", "7", "2", "9", "5">>
InMaxCounterRoom == Pad(60) \o <<".", "4", "2", "9", "4", "9", "6", "7", "2", "9", "5">>
In100Nineteen  == Pad(97) \o <<".", "1", "9">>
In110          == Pad(108) \o <<".", "0">>
In127          == Pad(125) \o <<".", "0">>
In127Nine      == Pad(125) \o <<".", "9">>
InTwoMarkers   == Pad(120) \o <<".", "7", "!", "!">>
In128Marker    == Pad(125) \o <<".", "0", "!">>
In128MarkerNine == Pad(124) \o <<".", "1", "9", "!">>
In128NoMarker  == Pad(126) \o <<".", "0">>
In128NoDot     == Pad(128)
In128Letters   == Pad(124) \o <<".", "a", "b", "c">>
In128Markers   == Rep("!", 128)
In129Marker    == Pad(126) \o <<".", "0", "!">>
In129NoDot     == Pad(129)

Inputs ==
    {InEmpty, InOnlyMarker, InOnlyBase, InBadCounter, InTerminated,
     InTwoMarkers, InEmptyCounter, InTooBig, InOfTests,
     InMaxCounter, InMaxCounterRoom, In100Nineteen, In110, In127, In127Nine, In128Marker,
     In128MarkerNine, In128NoMarker, In128NoDot, In128Letters, In128Markers,
     In129Marker, In129NoDot}

\* spin: a selection of the 40 combinations of the three options, one for
\* each total width 0, 16, 32, 40, 56 and 64 bits
Params(interval, periodicity, entropy) ==
    [spin_counter_interval    |-> interval,
     spin_counter_periodicity |-> periodicity,
     spin_entropy             |-> entropy]

SpinParams ==
    {Params("Coarse", "None", "None"),
     Params("Coarse", "Short", "None"),
     Params("Fine", "Short", "Two"),
     Params("Coarse", "Medium", "Two"),
     Params("Fine", "Long", "Three"),
     Params("Fine", "Long", "Four")}

\* spin: the reading of the clock, in 100 ns ticks since the epoch, as a u64
Clock == {<<0, 63, 16, 0, 100, 59, 7, 9>>}

\* spin: the bytes the random source yields
Random == {<<154, 202, 0, 10>>}

----------------------------------------------------------------------------
(* The state machine: one vector, constructed once and then mutated *)

\* the value of `spun` when the last call read no spin parameters
NoSpin == [params |-> Params("none", "none", "none"), ticks |-> <<>>, random |-> <<>>]

\* a vector exists and no call has panicked
Alive == op # "none" /\ result = "Ok"

\* one more call on a mutable vector is within the bound
InBounds == cv.immutable \/ calls < MaxCalls

Counted == IF cv.immutable THEN calls ELSE calls + 1

Init ==
    /\ cv = NoVector
    /\ prev = NoVector
    /\ op = "none"
    /\ result = "none"
    /\ calls = 0
    /\ spins = 0
    /\ spun = NoSpin
    /\ \/ ctor = "new_from_uuid" /\ uuid \in Uuids /\ input = <<>>
       \/ ctor = "parse" /\ input \in Inputs /\ uuid = <<>>

New ==
    /\ op = "none"
    /\ ctor = "new_from_uuid"
    /\ cv' = new_from_uuid(uuid)
    /\ prev' = cv
    /\ op' = "new_from_uuid"
    /\ result' = "Ok"
    /\ spun' = NoSpin
    /\ UNCHANGED <<ctor, uuid, input, calls, spins>>

Parse ==
    /\ op = "none"
    /\ ctor = "parse"
    /\ LET r == parse(input)
       IN  /\ cv' = r.cv
           /\ result' = r.err
    /\ prev' = cv
    /\ op' = "parse"
    /\ spun' = NoSpin
    /\ UNCHANGED <<ctor, uuid, input, calls, spins>>

Extend ==
    /\ Alive
    /\ InBounds
    /\ cv' = extend(cv)
    /\ prev' = cv
    /\ op' = "extend"
    /\ result' = "Ok"
    /\ calls' = Counted
    /\ spun' = NoSpin
    /\ UNCHANGED <<ctor, uuid, input, spins>>

\* for _ in 0..128 { cv.extend(); }: the state after the last of the calls
ExtendLoop ==
    /\ Alive
    /\ LET before_last == extend_times(cv, 127)
       IN  /\ prev' = before_last
           /\ cv' = extend(before_last)
    /\ op' = "extend"
    /\ result' = "Ok"
    /\ spun' = NoSpin
    /\ UNCHANGED <<ctor, uuid, input, calls, spins>>

Increment ==
    /\ Alive
    /\ InBounds
    /\ \E overflow_checks \in BOOLEAN :
          LET r == increment(cv, overflow_checks)
          IN  /\ cv' = r.cv
              /\ result' = IF r.panic THEN "panic" ELSE "Ok"
    /\ prev' = cv
    /\ op' = "increment"
    /\ calls' = Counted
    /\ spun' = NoSpin
    /\ UNCHANGED <<ctor, uuid, input, spins>>

Spin ==
    /\ Alive
    /\ InBounds
    /\ \E params \in SpinParams, ticks \in Clock, random \in Random :
          /\ cv' = spin(cv, params, ticks, random)
          \* an immutable vector makes spin return before it reads any of them
          /\ spun' = IF cv.immutable THEN NoSpin
                     ELSE [params |-> params, ticks |-> ticks, random |-> random]
    /\ prev' = cv
    /\ op' = "spin"
    /\ result' = "Ok"
    /\ calls' = Counted
    /\ spins' = IF cv.immutable THEN spins ELSE spins + 1
    /\ UNCHANGED <<ctor, uuid, input>>

Next == New \/ Parse \/ Extend \/ ExtendLoop \/ Increment \/ Spin

Spec == Init /\ [][Next]_vars

----------------------------------------------------------------------------
(* A fresh vector given extend and increment calls only, for long runs *)

\* for _ in 0..n { cv.extend(); }: one call, the 50 calls that leave a
\* fresh vector room for one more counter, and the 128 of the unit test
ExtendRuns == {1, 50, 128}

FreshInit ==
    /\ Init
    /\ ctor = "new_from_uuid"

ExtendRun ==
    /\ Alive
    /\ cv.immutable \/ Len(cv.vector) <= MaxVector
    /\ \E n \in ExtendRuns :
          LET before_last == extend_times(cv, n - 1)
          IN  /\ prev' = before_last
              /\ cv' = extend(before_last)
    /\ op' = "extend"
    /\ result' = "Ok"
    /\ spun' = NoSpin
    /\ UNCHANGED <<ctor, uuid, input, calls, spins>>

FreshIncrement ==
    /\ Alive
    /\ cv.immutable \/ Gt(FromNat(MaxCounter, 4), cv.vector[Len(cv.vector)])
    /\ \E overflow_checks \in BOOLEAN :
          LET r == increment(cv, overflow_checks)
          IN  /\ cv' = r.cv
              /\ result' = IF r.panic THEN "panic" ELSE "Ok"
    /\ prev' = cv
    /\ op' = "increment"
    /\ spun' = NoSpin
    /\ UNCHANGED <<ctor, uuid, input, calls, spins>>

FreshNext == New \/ ExtendRun \/ FreshIncrement

FreshSpec == FreshInit /\ [][FreshNext]_vars

----------------------------------------------------------------------------
(* Helpers of the properties *)

\* the last call was one of the three mutations
Mutated == op \in {"extend", "increment", "spin"}

\* a constructor has returned a vector
Constructed == op # "none" /\ cv # NoVector

\* the formatted vector
Formatted == fmt(cv)

\* the string has no '.'
NoDot(s) == \A i \in 1..Len(s) : s[i] # "."

\* the counters the last call appended
Appended == SubSeq(cv.vector, Len(prev.vector) + 1, Len(cv.vector))

\* the counters a spin call with the arguments `spun` has to append, in
\* order, given the masked value: low 32 bits, high 32 bits when the total
\* width exceeds 32, then 0
SpinCounters(value) ==
    <<SubSeq(value, 5, 8)>>
    \o (IF tick_periodicity_bits(spun.params) > 32
        THEN <<SubSeq(value, 1, 4)>> ELSE <<>>)
    \o <<FromNat(0, 4)>>

\* what the first k of the counters add to serialized_length
RECURSIVE SpinCost(_, _)
SpinCost(counters, k) ==
    IF k = 0 THEN 0
    ELSE SpinCost(counters, k - 1) + serialized_length_of(counters[k]) + 1

\* the bytes the first k of the counters take in the formatted string, each
\* with its '.' separator
RECURSIVE WrittenLength(_, _)
WrittenLength(counters, k) ==
    IF k = 0 THEN 0
    ELSE WrittenLength(counters, k - 1) + Len(to_string(counters[k])) + 1

TypeOK ==
    /\ op \in {"none", "new_from_uuid", "parse", "extend", "increment", "spin"}
    /\ result \in {"none", "Ok", "panic", "Empty", "MissingVector",
                   "ParseError", "StringTooLongError"}
    /\ cv.immutable \in BOOLEAN
    /\ cv.serialized_length \in 0..127
    /\ calls \in 0..MaxCalls
    /\ spins \in 0..calls
    /\ spun # NoSpin => op = "spin"

----------------------------------------------------------------------------
(* The claims *)

\* C1: in every state reached from a fresh or a successfully parsed vector
\* by extend, increment and spin calls, the length of the formatted string
\* equals serialized_length (the terminator included when immutable).
C1_FormatLengthIsSerializedLength ==
    Constructed => Len(Formatted) = cv.serialized_length

\* C2: for a fresh vector, whatever spin, extend and increment calls are
\* made, the formatted string never exceeds 128 bytes.
C2_FreshNeverExceeds128 ==
    (ctor = "new_from_uuid" /\ Constructed) => Len(Formatted) <= 128

\* C3: parse(format(v)) succeeds and equals v, in all four fields, for every
\* vector v reached from a fresh vector, immutable ones included.
C3_ParseInvertsFormat ==
    (ctor = "new_from_uuid" /\ Constructed)
        => parse(Formatted) = [ok |-> TRUE, err |-> "Ok", cv |-> cv]

\* C4: a successful parse yields immutable = TRUE exactly when the input
\* ends with the termination marker; parse("base.0!") gives base "base",
\* vector [0], immutable TRUE.
C4_ParseRemembersMarker ==
    (op = "parse" /\ result = "Ok")
        => /\ cv.immutable = EndsWith(input, TERMINATION_SYMBOL)
           /\ input = InTerminated
                => /\ cv.base = <<"b", "a", "s", "e">>
                   /\ cv.vector = <<FromNat(0, 4)>>
                   /\ cv.immutable

\* C5: immutable is absorbing: an extend, increment or spin call that finds
\* the vector immutable leaves base, vector, immutable and
\* serialized_length as they were (so immutable never goes back to FALSE).
C5_ImmutableIsAbsorbing ==
    (Mutated /\ prev.immutable) => cv = prev

\* C5 witness: extend was called on an immutable vector that had room for
\* one more counter, and changed nothing.
C5_Witness ==
    /\ op = "extend"
    /\ prev.immutable
    /\ prev.serialized_length + 2 <= 127
    /\ cv = prev

\* C6: once repeated extend calls have made a vector immutable, whatever
\* vector they started from, its formatted string is at most 128 bytes long
\* and ends with the termination marker.
C6_ExtendEndsWithin128 ==
    (op = "extend" /\ cv.immutable)
        => \A s \in {Formatted} :
              Len(s) <= 128 /\ EndsWith(s, TERMINATION_SYMBOL)

\* C7: a vector parsed from a 128-byte string ending with the termination
\* marker, given one increment call, still formats to exactly 128 bytes
\* ending with the marker, its counters unchanged.
C7_IncrementAtCeilingKeeps128 ==
    (/\ ctor = "parse"
     /\ Len(input) = 128
     /\ EndsWith(input, TERMINATION_SYMBOL)
     /\ op = "increment"
     /\ prev = parse(input).cv)
        => \A s \in {Formatted} :
              /\ Len(s) = 128
              /\ EndsWith(s, TERMINATION_SYMBOL)
              /\ cv.vector = prev.vector

\* C8: the formatted string ends with the termination marker if and only if
\* immutable is TRUE; a mutable vector's string ends with the decimal digits
\* of its last counter.
C8_MarkerIffImmutable ==
    Constructed
        => \A s \in {Formatted} :
           \A last \in {to_string(cv.vector[Len(cv.vector)])} :
              /\ EndsWith(s, TERMINATION_SYMBOL) <=> cv.immutable
              /\ ~cv.immutable
                   => /\ SubSeq(s, Len(s) - Len(last) + 1, Len(s)) = last
                      /\ IsDigit(s[Len(s)])

\* C8 witness: an increment call has made the vector immutable and its
\* string ends with the marker.
C8_Witness ==
    /\ op = "increment"
    /\ ~prev.immutable
    /\ cv.immutable
    /\ EndsWith(Formatted, TERMINATION_SYMBOL)

\* C9: parse of the empty string fails with Empty; parse of a non-empty
\* string (within the length limit) with a base but no '.' fails with
\* MissingVector.
C9_EmptyAndMissingVector ==
    (op = "parse" /\ Len(input) < 128)
        => /\ input = <<>> => result = "Empty"
           /\ (input # <<>> /\ NoDot(input)) => result = "MissingVector"

\* C10: parse fails with StringTooLongError exactly for the inputs longer
\* than 128 bytes and the 128-byte inputs that do not end with the
\* termination marker, whatever else they contain.
C10_StringTooLong ==
    op = "parse"
        => (result = "StringTooLongError"
              <=> \/ Len(input) > 128
                  \/ (Len(input) = 128 /\ ~EndsWith(input, TERMINATION_SYMBOL)))

\* C10 witness: a 128-byte input without the marker whose counter is not a
\* number was rejected for its length, and a 128-byte input of markers only
\* was not.
C10_Witness ==
    /\ op = "parse"
    /\ \/ input = In128Letters /\ result = "StringTooLongError"
       \/ input = In128Markers /\ result = "MissingVector"

\* C11: every extend, increment and spin call completes without arithmetic
\* overflow or panic, also on a parsed vector whose last counter is
\* 4294967295: an increment that is applied leaves the last counter one
\* greater than it was, within the unsigned 32-bit range.
C11_MutationsAreTotal ==
    Mutated
        => /\ result = "Ok"
           /\ (op = "increment" /\ ~prev.immutable /\ ~cv.immutable)
                => /\ AddOne(prev.vector[Len(prev.vector)]).carry = 0
                   /\ cv.vector[Len(cv.vector)]
                        = AddOne(prev.vector[Len(prev.vector)]).value

\* C12: on a mutable vector with serialized_length < 127, increment raises
\* the last counter by 1, leaves the other counters and base as they were,
\* and raises serialized_length by exactly 1 when the last counter's decimal
\* form ended in 9 and by 0 otherwise; on a fresh vector the formatted string
\* then ends in "1".
C12_IncrementEffects ==
    (op = "increment" /\ ~prev.immutable /\ prev.serialized_length < 127)
        => \A last \in {prev.vector[Len(prev.vector)]} :
              /\ result = "Ok"
              /\ AddOne(last).carry = 0
              /\ cv.vector = [prev.vector EXCEPT ![Len(prev.vector)] = AddOne(last).value]
              /\ cv.base = prev.base
              /\ cv.serialized_length
                   = prev.serialized_length + (IF Mod10(last) = 9 THEN 1 ELSE 0)
              /\ prev = new_from_uuid(uuid) => EndsWith(Formatted, "1")

\* C13: a successful parse sets serialized_length to the byte length of the
\* string it was given, the termination marker included, for terminated and
\* unterminated inputs alike.
C13_ParseLengthOfOriginal ==
    (op = "parse" /\ result = "Ok") => cv.serialized_length = Len(input)

\* C14: an increment that is applied adds to serialized_length exactly the
\* number of digits the last counter gains (1 for 9 -> 10, 0 for 19 -> 20),
\* and increment sets immutable, dropping the increment, only when the
\* incremented counter would make the string longer than 127 bytes.
C14_IncrementTracksDigitGrowth ==
    (/\ op = "increment"
     /\ ~prev.immutable
     /\ result = "Ok"
     /\ AddOne(prev.vector[Len(prev.vector)]).carry = 0)
        => \A before \in {to_string(prev.vector[Len(prev.vector)])} :
           \A after \in {to_string(AddOne(prev.vector[Len(prev.vector)]).value)} :
              /\ ~cv.immutable
                   => cv.serialized_length
                        = prev.serialized_length + Len(after) - Len(before)
              /\ cv.immutable
                   => Len(fmt(prev)) + Len(after) - Len(before) > 127

\* C15: a spin call on a mutable vector leaves the old counters followed by
\* a prefix of [low 32 bits, high 32 bits when the width exceeds 32, 0] of
\* the masked value; the prefix is the longest the 127-byte budget of
\* serialized_length admits, every append being counted before the next is
\* checked; immutable is set exactly when the prefix is proper; and when
\* all fit the last counter is 0.
C15_SpinAppendsInOrder ==
    (op = "spin" /\ ~prev.immutable)
        => \A counters \in {SpinCounters(spin_value(spun.params, spun.ticks, spun.random))} :
           \A k \in {Len(Appended)} :
              /\ Len(cv.vector) >= Len(prev.vector)
              /\ cv.vector = prev.vector \o SubSeq(counters, 1, k)
              /\ k <= Len(counters)
              /\ cv.immutable <=> k < Len(counters)
              /\ cv.serialized_length = prev.serialized_length + SpinCost(counters, k)
              /\ cv.serialized_length <= 127
              /\ k < Len(counters)
                   => prev.serialized_length + SpinCost(counters, k + 1) > 127
              /\ prev.serialized_length + SpinCost(counters, Len(counters)) <= 127
                   => /\ ~cv.immutable
                      /\ cv.vector[Len(cv.vector)] = FromNat(0, 4)
              /\ cv.base = prev.base

\* C15 witness: a spin call of a width above 32 bits appended the low 32
\* bits, found no room for the high 32 bits, and set immutable.
C15_Witness ==
    /\ op = "spin"
    /\ ~prev.immutable
    /\ tick_periodicity_bits(spun.params) > 32
    /\ Len(cv.vector) = Len(prev.vector) + 1
    /\ cv.vector[Len(cv.vector)]
         = SubSeq(spin_value(spun.params, spun.ticks, spun.random), 5, 8)
    /\ cv.immutable

\* C16: the counters a spin call appends are the low and the high 32 bits
\* of the composite of ticks and entropy with exactly its low w bits kept,
\* w being periodicity bits + 8 * entropy bytes; for w = 64 (Long with Four)
\* that is the whole 64-bit composite.
C16_MaskKeepsLowBits ==
    (op = "spin" /\ ~prev.immutable)
        => \A w \in {tick_periodicity_bits(spun.params)} :
           \A composite \in {spin_composite(spun.params, spun.ticks, spun.random)} :
           \A kept \in {IF w = 64 THEN composite ELSE And(composite, LowBitsMask(w))} :
              /\ Len(Appended) >= 1 => Appended[1] = SubSeq(kept, 5, 8)
              /\ (w > 32 /\ Len(Appended) >= 2) => Appended[2] = SubSeq(kept, 1, 4)

\* C17: for every counter c a spin call appends, serialized_length_of(c) is
\* the number of decimal digits of c (10, 100 and the like included), so the
\* call adds to serialized_length the digits of each appended counter plus
\* one for its separator.
C17_SpinCountsDigits ==
    (op = "spin" /\ ~prev.immutable)
        => /\ \A i \in 1..Len(Appended) :
                 serialized_length_of(Appended[i]) = Len(to_string(Appended[i]))
           /\ cv.serialized_length
                = prev.serialized_length + WrittenLength(Appended, Len(Appended))

\* C18: extend on a mutable vector with serialized_length + 2 <= 127
\* appends one counter 0 and adds 2 to serialized_length, base, the other
\* counters and immutable staying as they were; with serialized_length + 2
\* > 127 it sets immutable and changes nothing else.  A fresh vector formats
\* to 2 dot-separated segments, and to 3 after one extend.
C18_ExtendEffects ==
    /\ (op = "extend" /\ ~prev.immutable)
         => IF prev.serialized_length + 2 <= 127
            THEN /\ cv.vector = Append(prev.vector, FromNat(0, 4))
                 /\ cv.serialized_length = prev.serialized_length + 2
                 /\ cv.base = prev.base
                 /\ cv.immutable = prev.immutable
            ELSE /\ cv.immutable
                 /\ cv.vector = prev.vector
                 /\ cv.serialized_length = prev.serialized_length
                 /\ cv.base = prev.base
    /\ op = "new_from_uuid" => Len(Split(Formatted, ".")) = 2
    /\ (op = "extend" /\ ctor = "new_from_uuid" /\ prev = new_from_uuid(uuid))
         => Len(Split(Formatted, ".")) = 3

\* C18 witness: extend has appended a counter whose two bytes bring
\* serialized_length to exactly 127.
C18_Witness ==
    /\ op = "extend"
    /\ ~prev.immutable
    /\ prev.serialized_length + 2 = 127
    /\ cv.vector = Append(prev.vector, FromNat(0, 4))
    /\ cv.serialized_length = 127
    /\ ~cv.immutable

\* C19: in every state reached from a fresh or a successfully parsed vector
\* by extend, increment and spin calls, the vector has at least one counter,
\* base is the value the constructor assigned, and the counters are
\* append-only: a call keeps every counter at its index with its value,
\* except that increment may change the last one (and only that).
C19_VectorAppendOnly ==
    /\ Constructed => Len(cv.vector) >= 1
    /\ (op = "new_from_uuid") => cv.base = PopPadding(Base64Encode(uuid))
    /\ (op = "parse" /\ result = "Ok")
         => \E d \in 1..Len(input) :
               /\ input[d] = "."
               /\ NoDot(SubSeq(input, 1, d - 1))
               /\ cv.base = SubSeq(input, 1, d - 1)
    /\ Mutated
         => /\ cv.base = prev.base
            /\ Len(cv.vector) >= Len(prev.vector)
            /\ \A i \in 1..Len(prev.vector) :
                  (op # "increment" \/ i < Len(prev.vector))
                      => cv.vector[i] = prev.vector[i]
            /\ op = "increment" => Len(cv.vector) = Len(prev.vector)

\* C19 witness: an increment call changed the last of several counters and
\* left the others as they were.
C19_Witness ==
    /\ op = "increment"
    /\ Len(prev.vector) >= 2
    /\ Len(cv.vector) = Len(prev.vector)
    /\ cv.vector[Len(cv.vector)] # prev.vector[Len(prev.vector)]
    /\ \A i \in 1..(Len(prev.vector) - 1) : cv.vector[i] = prev.vector[i]

\* C20: on a fresh vector given extend and increment calls only (no spin),
\* serialized_length never under-counts: base, '.' and the counters joined
\* by '.' take at most serialized_length bytes, serialized_length is at most
\* 127, and so the formatted string, terminator included, is at most 128
\* bytes long.
C20_FreshNeverUnderCounts ==
    (ctor = "new_from_uuid" /\ Constructed /\ spins = 0)
        => \A data \in {fmt([cv EXCEPT !.immutable = FALSE])} :
              /\ Len(data) <= cv.serialized_length
              /\ cv.serialized_length <= 127
              /\ Len(Formatted) <= 128

\* C20 witness: the length accounting has drifted (the counters take fewer
\* bytes than serialized_length says) and an increment call has found the
\* budget full and set immutable.
C20_Witness ==
    /\ ctor = "new_from_uuid"
    /\ spins = 0
    /\ op = "increment"
    /\ ~prev.immutable
    /\ prev.serialized_length = 127
    /\ cv.immutable
    /\ Len(fmt([cv EXCEPT !.immutable = FALSE])) < cv.serialized_length

====
